---------------------------- MODULE Spec2Model ----------------------------
(***************************************************************************)
(* A model of the dq_ai audit engine: the seven checks of run_audit.py,    *)
(* the enrichment stage of app.py's run callback, the scorer, and the two  *)
(* entry points that load the inputs and hand the outcome over.            *)
(*                                                                         *)
(* Numbers.  Python floats are modelled by exact rationals <<n, d>> in     *)
(* lowest terms with d > 0.  The data of the model are integers, so every  *)
(* quantity the checks compute is a small rational and the model agrees    *)
(* with the float computation wherever the float result is exact.          *)
(***************************************************************************)
EXTENDS Integers, Sequences, FiniteSets, TLC

VARIABLES data_contents, base_contents, entry, df, baseline, results, score,
          out, completed, pc

vars == <<data_contents, base_contents, entry, df, baseline, results, score,
          out, completed, pc>>

---------------------------------------------------------------------------
(* Bounds of the model. *)

\* rows of an "orders" dataset (id, order_date, ship_date)
MaxOrderRows == 3

\* rows of a generic two-column dataset
MaxRows == 4

\* rows of a "contacts" dataset (one text column)
MaxContactRows == 2

\* rows of an "amounts" dataset (one numeric column)
MaxAmountRows == 11

\* rows of a "cities" dataset (one categorical column)
MaxCityRows == 101

\* length of a finding list handed to the scorer on its own
MaxFindings == 4

\* rows of an "orders" dataset audited through main
MaxMainRows == 2

\* rows of an "orders" dataset audited with the checks in any order
MaxInterleavedRows == 2

---------------------------------------------------------------------------
(* Rational arithmetic. *)

Abs(x) == IF x < 0 THEN -x ELSE x

RECURSIVE GCD(_, _)
GCD(a, b) == IF b = 0 THEN a ELSE GCD(b, a % b)

Rat(n, d) ==
    LET g == GCD(Abs(n), Abs(d))
        s == IF d < 0 THEN -1 ELSE 1
    IN  <<(s * n) \div g, (s * d) \div g>>

RInt(n) == <<n, 1>>

RAdd(a, b) == Rat(a[1] * b[2] + b[1] * a[2], a[2] * b[2])

RSub(a, b) == Rat(a[1] * b[2] - b[1] * a[2], a[2] * b[2])

RMul(a, b) == Rat(a[1] * b[1], a[2] * b[2])

RDiv(a, b) == Rat(a[1] * b[2], a[2] * b[1])

RLess(a, b) == a[1] * b[2] < b[1] * a[2]

RLeq(a, b) == a[1] * b[2] <= b[1] * a[2]

\* Python's max(a, b) and min(a, b) on two numbers
RMax(a, b) == IF RLess(a, b) THEN b ELSE a

RMin(a, b) == IF RLess(b, a) THEN b ELSE a

RECURSIVE Pow10(_)
Pow10(k) == IF k = 0 THEN 1 ELSE 10 * Pow10(k - 1)

\* Python's round(x, places): the nearest multiple of 10^-places, a tie
\* going to the even one.
Round(x, places) ==
    LET p    == Pow10(places)
        n    == x[1] * p
        d    == x[2]
        fl   == n \div d
        rem2 == 2 * (n - fl * d)
        k    == IF rem2 < d THEN fl
                ELSE IF rem2 > d THEN fl + 1
                ELSE IF fl % 2 = 0 THEN fl ELSE fl + 1
    IN  Rat(k, p)

---------------------------------------------------------------------------
(* The dataset: pandas' DataFrame as the checks see it. *)

\* A cell is missing (NaN), a number or a text.
NA == [k |-> "na", n |-> 0, s |-> ""]

Num(x) == [k |-> "num", n |-> x, s |-> ""]

Str(t) == [k |-> "str", n |-> 0, s |-> t]

isna(c) == c.k = "na"

\* A DataFrame: its column names in order and its rows, each row a function
\* from column name to cell.  The index is the default RangeIndex, and row i
\* of the model (1-based) carries the index label i - 1.
DataFrame(cols, rows) == [columns |-> cols, rows |-> rows]

len(d) == Len(d.rows)

Range(s) == {s[i] : i \in DOMAIN s}

ColumnSet(d) == Range(d.columns)

\* df[c]: the cells of column c, in row order
Column(d, c) == [i \in 1..len(d) |-> d.rows[i][c]]

\* the dtype pandas infers for a column read from CSV: a column holding a text
\* is object; a column of numbers is int64, or float64 once a value is
\* missing; a column with no value at all is float64, and object when the
\* file has no data row.
dtype(d, c) ==
    LET s == Column(d, c)
    IN  IF len(d) = 0 THEN "object"
        ELSE IF \E i \in DOMAIN s : s[i].k = "str" THEN "object"
        ELSE IF \E i \in DOMAIN s : s[i].k = "na" THEN "float64"
        ELSE "int64"

is_numeric_dtype(d, c) == dtype(d, c) \in {"int64", "float64"}

is_string_dtype(d, c) == dtype(d, c) = "object"

\* number of indices of a sequence that satisfy a mask
CountTrue(mask) == Cardinality({i \in DOMAIN mask : mask[i]})

\* DataFrame.duplicated(subset, keep): keep = "first" marks every row whose
\* key already occurred in an earlier row, keep = "none" (pandas' keep=False) marks every row whose
\* key occurs in another row.  Missing values compare equal to each other.
Key(d, i, subset) == [c \in subset |-> d.rows[i][c]]

\* duplicated comparing neighbouring rows only: a faulty variant that C6 must
\* tell from duplicated
duplicated_adjacent(d, subset, keep) ==
    [i \in 1..len(d) |->
        \/ i > 1 /\ Key(d, i - 1, subset) = Key(d, i, subset)
        \/ keep # "first" /\ i < len(d) /\ Key(d, i + 1, subset) = Key(d, i, subset)]

duplicated(d, subset, keep) ==
    [i \in 1..len(d) |->
        IF keep = "first"
        THEN \E j \in 1..(i - 1) : Key(d, j, subset) = Key(d, i, subset)
        ELSE \E j \in 1..len(d) : j # i /\ Key(d, j, subset) = Key(d, i, subset)]

\* the positions lo..hi of a sequence that satisfy a mask, in ascending order
RECURSIVE PositionsIn(_, _, _)
PositionsIn(mask, lo, hi) ==
    IF lo > hi THEN <<>>
    ELSE IF lo = hi THEN (IF mask[lo] THEN <<lo>> ELSE <<>>)
    ELSE LET mid == (lo + hi) \div 2
         IN  PositionsIn(mask, lo, mid) \o PositionsIn(mask, mid + 1, hi)

Positions(mask) == PositionsIn(mask, 1, Len(mask))

\* s.head(k)
head(s, k) == SubSeq(s, 1, IF Len(s) < k THEN Len(s) ELSE k)

---------------------------------------------------------------------------
(* Findings. *)

\* A finding's name is a rule text followed, for the per-column rules, by
\* the column's name: f"IQR Outliers: {c}" is Name("IQR Outliers", ": ", c).
Name(rule, sep, col) == [rule |-> rule, sep |-> sep, col |-> col]

CheckResult(name, severity, issues, impact) ==
    [name |-> name, severity |-> severity, issues |-> issues, impact |-> impact]

\* the weights looked up under a key that misses "critical", which then takes
\* the default of 1: a faulty variant that C4 must tell from SEVERITY_WEIGHTS
SEVERITY_WEIGHTS_miskeyed(sev) ==
    CASE sev = "major" -> 2
      [] OTHER         -> 1

SEVERITY_WEIGHTS(sev) ==
    CASE sev = "critical" -> 3
      [] sev = "major"    -> 2
      [] sev = "minor"    -> 1
      [] OTHER            -> 1

\* norm without the upper clamp: a faulty variant that C9 must tell from norm
norm_unclamped(x, cap) == RMax(RInt(0), RDiv(x, cap))

norm(x, cap) == RMax(RInt(0), RMin(RInt(1), RDiv(x, cap)))

\* max(10, len(df) * pct / 100), the cap of the row-count dependent rules
RowCap(n, pct) == RMax(RInt(10), Rat(n * pct, 100))


---------------------------------------------------------------------------
(* The baseline: None, or the dict parsed from baseline_schema.json.  keys  *)
(* is the set of keys the dict holds; dtypes keeps the dict's order as a    *)
(* sequence of <<column, dtype>> pairs.                                     *)

None == [kind |-> "none", keys |-> {}, columns |-> <<>>, dtypes |-> <<>>,
         primary_key |-> <<>>]

Dict(keys, columns, dtypes, pk) ==
    [kind |-> "dict", keys |-> keys, columns |-> columns, dtypes |-> dtypes,
     primary_key |-> pk]

\* Python's truth value of the baseline: None and {} are false
Truthy(b) == b.kind = "dict" /\ b.keys # {}

\* baseline.get(key, default)
Get(b, key, default) == IF key \in b.keys THEN b[key] ELSE default

---------------------------------------------------------------------------
(* check_schema *)

\* a drift record for every declared column the dataset has, matching or
\* not: a faulty variant that C12 must tell from DriftFrom
RECURSIVE DriftFrom_every_present(_, _, _)
DriftFrom_every_present(d, exp_types, i) ==
    IF i > Len(exp_types) THEN <<>>
    ELSE LET c   == exp_types[i][1]
             exp == exp_types[i][2]
         IN  IF c \in ColumnSet(d)
             THEN <<[column |-> c, expected |-> exp, actual |-> dtype(d, c)]>>
                      \o DriftFrom_every_present(d, exp_types, i + 1)
             ELSE DriftFrom_every_present(d, exp_types, i + 1)

\* the drift records of the baseline's dtypes from position i on
RECURSIVE DriftFrom(_, _, _)
DriftFrom(d, exp_types, i) ==
    IF i > Len(exp_types) THEN <<>>
    ELSE LET c   == exp_types[i][1]
             exp == exp_types[i][2]
         IN  IF c \in ColumnSet(d) /\ dtype(d, c) # exp
             THEN <<[column |-> c, expected |-> exp, actual |-> dtype(d, c)]>>
                      \o DriftFrom(d, exp_types, i + 1)
             ELSE DriftFrom(d, exp_types, i + 1)

\* list(expected_cols - actual_cols) has the order of Python's set iteration,
\* which carries no meaning: the issue record keeps the names as a set.
SchemaFindings(d, b) ==
    LET expected_cols == Range(Get(b, "columns", <<>>))
        actual_cols   == ColumnSet(d)
        missing       == expected_cols \ actual_cols
        new           == actual_cols \ expected_cols
        drift         == DriftFrom(d, Get(b, "dtypes", <<>>), 1)
    IN  (IF missing # {}
         THEN <<CheckResult(Name("Missing Columns", "", ""), "critical",
                            <<[missing |-> missing]>>,
                            norm(RInt(Cardinality(missing)), RInt(10)))>>
         ELSE <<>>)
        \o
        (IF new # {}
         THEN <<CheckResult(Name("Unexpected Columns", "", ""), "major",
                            <<[new |-> new]>>,
                            norm(RInt(Cardinality(new)), RInt(10)))>>
         ELSE <<>>)
        \o
        (IF drift # <<>>
         THEN <<CheckResult(Name("Dtype Drift", "", ""), "major", drift,
                            norm(RInt(Len(drift)), RInt(15)))>>
         ELSE <<>>)

\* check_schema without its guard, an absent baseline read as an empty one:
\* a faulty variant that C1 must tell from check_schema
check_schema_unguarded(d, b) == SchemaFindings(d, b)

check_schema(d, b) == IF ~Truthy(b) THEN <<>> ELSE SchemaFindings(d, b)

---------------------------------------------------------------------------
(* check_primary_key *)

\* df.duplicated(subset=pk) raises KeyError when pk names a column the
\* dataset does not have
check_primary_key_raises(d, pk) ==
    pk # <<>> /\ \E i \in DOMAIN pk : pk[i] \notin ColumnSet(d)

\* check_primary_key counting every member of a duplicate-key group
\* (keep=False): a faulty variant that C11 must tell from check_primary_key
check_primary_key_every_member(d, pk) ==
    IF pk = <<>> THEN <<>>
    ELSE
      LET subset == Range(pk)
          dupes  == CountTrue(duplicated(d, subset, "none"))
      IN  IF dupes > 0
          THEN <<CheckResult(Name("Primary Key Uniqueness", "", ""), "critical",
                             <<[duplicates |-> dupes, examples |-> <<>>]>>,
                             norm(RInt(dupes), RowCap(len(d), 2)))>>
          ELSE <<>>

check_primary_key(d, pk) ==
    IF pk = <<>> THEN <<>>
    ELSE
      LET subset == Range(pk)
          dupes  == CountTrue(duplicated(d, subset, "first"))
          all    == Positions(duplicated(d, subset, "none"))
          ex     == [i \in 1..Len(head(all, 5)) |-> Key(d, all[i], subset)]
      IN  IF dupes > 0
          THEN <<CheckResult(Name("Primary Key Uniqueness", "", ""), "critical",
                             <<[duplicates |-> dupes, examples |-> ex]>>,
                             norm(RInt(dupes), RowCap(len(d), 2)))>>
          ELSE <<>>

---------------------------------------------------------------------------
(* check_missing_duplicates_types *)

\* df.isna().sum(): the number of missing cells of column c
MissingCount(d, c) == CountTrue([i \in 1..len(d) |-> isna(d.rows[i][c])])

\* miss[miss > 0] as {column, missing} records, in column order
\* the records of every column, without the filter miss > 0: a faulty variant
\* that C2 must tell from MissFrom
RECURSIVE MissFrom_unfiltered(_, _)
MissFrom_unfiltered(d, i) ==
    IF i > Len(d.columns) THEN <<>>
    ELSE <<[column |-> d.columns[i], missing |-> MissingCount(d, d.columns[i])]>>
             \o MissFrom_unfiltered(d, i + 1)

RECURSIVE MissFrom(_, _)
MissFrom(d, i) ==
    IF i > Len(d.columns) THEN <<>>
    ELSE LET c == d.columns[i]
             v == MissingCount(d, c)
         IN  IF v > 0
             THEN <<[column |-> c, missing |-> v]>> \o MissFrom(d, i + 1)
             ELSE MissFrom(d, i + 1)

RECURSIVE SumMissing(_, _)
SumMissing(miss, i) ==
    IF i > Len(miss) THEN 0 ELSE miss[i].missing + SumMissing(miss, i + 1)

check_missing_duplicates_types(d) ==
    LET miss == MissFrom(d, 1)
        dups == CountTrue(duplicated(d, ColumnSet(d), "first"))
    IN  (IF Len(miss) > 0
         THEN <<CheckResult(Name("Missing Values", "", ""), "major", miss,
                            norm(RInt(SumMissing(miss, 1)), RowCap(len(d), 5)))>>
         ELSE <<>>)
        \o
        (IF dups > 0
         THEN <<CheckResult(Name("Duplicate Rows", "", ""), "major",
                            <<[duplicates |-> dups]>>,
                            norm(RInt(dups), RowCap(len(d), 3)))>>
         ELSE <<>>)

---------------------------------------------------------------------------
(* check_outliers_iqr *)

\* A bound lo or hi is r + e * (1e-9 / 2): the data of the model lie on a grid
\* far coarser than 1e-9, so the epsilon part decides a comparison only
\* between equal rational parts.
Eps(r, e) == [r |-> r, e |-> e]

ELess(x, y) == RLess(x.r, y.r) \/ (x.r = y.r /\ x.e < y.e)

EMax(x, y) == IF ELess(x, y) THEN y ELSE x

\* the floor of 1e-9 under the interquartile range (line 90)
EPSILON == Eps(RInt(0), 2)

\* pd.to_numeric(df[c], errors="coerce").dropna(): the numbers of a column,
\* in row order
DropNa(s) ==
    LET p == Positions([i \in DOMAIN s |-> s[i].k = "num"])
    IN  [k \in 1..Len(p) |-> s[p[k]].n]

\* insertion of x into an ascending sequence
RECURSIVE Insert(_, _)
Insert(x, s) ==
    IF s = <<>> THEN <<x>>
    ELSE IF x <= Head(s) THEN <<x>> \o s
    ELSE <<Head(s)>> \o Insert(x, Tail(s))

RECURSIVE Sort(_)
Sort(s) == IF s = <<>> THEN <<>> ELSE Insert(Head(s), Sort(Tail(s)))

\* np.percentile(s, q), method "linear": the virtual index (n - 1) * q / 100
\* of the sorted values, interpolating between its two neighbours
\* the percentile without interpolation (method "lower"): a faulty variant
\* that C5 must tell from percentile
percentile_lower(s, q) == RInt(Sort(s)[((Len(s) - 1) * q) \div 100 + 1])

percentile(s, q) ==
    LET a     == Sort(s)
        n     == Len(a)
        pos   == (n - 1) * q
        below == pos \div 100
        gamma == Rat(pos % 100, 100)
        x     == a[below + 1]
        y     == IF below + 2 <= n THEN a[below + 2] ELSE x
    IN  RAdd(RInt(x), RMul(gamma, RInt(y - x)))

\* the bounds [lo, hi] of a sample
IqrBounds(s) ==
    LET q1  == percentile(s, 25)
        q3  == percentile(s, 75)
        iqr == EMax(Eps(RSub(q3, q1), 0), EPSILON)
        w   == Eps(RMul(Rat(3, 2), iqr.r), (3 * iqr.e) \div 2)
    IN  [lo |-> Eps(RSub(q1, w.r), 0 - w.e), hi |-> Eps(RAdd(q3, w.r), w.e)]

\* (s < lo) | (s > hi) on one value; a missing value compares false
Outside(v, lo, hi) ==
    ELess(Eps(RInt(v), 0), lo) \/ ELess(hi, Eps(RInt(v), 0))

\* the least sample size the IQR rule is applied to (line 87)
MIN_SAMPLE == 10

RECURSIVE OutliersFrom(_, _)
OutliersFrom(d, i) ==
    IF i > Len(d.columns) THEN <<>>
    ELSE
      LET c == d.columns[i]
          s == DropNa(Column(d, c))
      IN  IF ~is_numeric_dtype(d, c) \/ Len(s) < MIN_SAMPLE
          THEN OutliersFrom(d, i + 1)
          ELSE
            LET b   == IqrBounds(s)
                cnt == CountTrue([j \in 1..Len(s) |-> Outside(s[j], b.lo, b.hi)])
            IN  (IF cnt > 0
                 THEN <<CheckResult(Name("IQR Outliers", ": ", c), "major",
                                    <<[count |-> cnt, lo |-> b.lo, hi |-> b.hi]>>,
                                    norm(RInt(cnt), RowCap(Len(s), 5)))>>
                 ELSE <<>>)
                \o OutliersFrom(d, i + 1)

check_outliers_iqr(d) == OutliersFrom(d, 1)


---------------------------------------------------------------------------
(* Texts.  TLA+ strings are atomic, so the characters of every text the     *)
(* model uses (column names and cell values) are tabulated; the string      *)
(* operations of the checks work on the characters.                         *)

Chars(t) ==
    CASE t = "a@b.co" -> <<"a", "@", "b", ".", "c", "o">>
      [] t = "a@b" -> <<"a", "@", "b">>
      [] t = "SW1A 1AA" -> <<"S", "W", "1", "A", " ", "1", "A", "A">>
      [] t = "A1" -> <<"A", "1">>
      [] t = "x" -> <<"x">>
      [] t = "y" -> <<"y">>
      [] t = "a" -> <<"a">>
      [] t = "b" -> <<"b">>
      [] t = "c" -> <<"c">>
      [] t = "nan" -> <<"n", "a", "n">>
      [] t = "2024-01-03" -> <<"2", "0", "2", "4", "-", "0", "1", "-", "0", "3">>
      [] t = "2024-01-05" -> <<"2", "0", "2", "4", "-", "0", "1", "-", "0", "5">>
      [] t = "2024-01-07" -> <<"2", "0", "2", "4", "-", "0", "1", "-", "0", "7">>
      [] t = "not a date" -> <<"n", "o", "t", " ", "a", " ", "d", "a", "t", "e">>
      [] t = "id" -> <<"i", "d">>
      [] t = "order_date" -> <<"o", "r", "d", "e", "r", "_", "d", "a", "t", "e">>
      [] t = "ship_date" -> <<"s", "h", "i", "p", "_", "d", "a", "t", "e">>
      [] t = "amount" -> <<"a", "m", "o", "u", "n", "t">>
      [] t = "city" -> <<"c", "i", "t", "y">>
      [] t = "contact" -> <<"c", "o", "n", "t", "a", "c", "t">>
      [] t = "customer" -> <<"c", "u", "s", "t", "o", "m", "e", "r">>
      [] t = "Date" -> <<"D", "a", "t", "e">>
      [] t = " amount" -> <<" ", "a", "m", "o", "u", "n", "t">>
      [] OTHER -> <<>>

Texts ==
    {"a@b.co", "a@b", "SW1A 1AA", "A1", "x", "y", "a", "b", "c", "nan",
     "2024-01-03", "2024-01-05", "2024-01-07", "not a date",
     "id", "order_date", "ship_date", "amount", "city", "contact", "customer",
     "Date", " amount"}

\* the text with the given characters
FromChars(w) ==
    IF \E t \in Texts : Chars(t) = w THEN CHOOSE t \in Texts : Chars(t) = w ELSE ""

Uppers == <<"A", "B", "C", "D", "E", "F", "G", "H", "I", "J", "K", "L", "M", "N", "O", "P", "Q", "R", "S", "T", "U", "V", "W", "X", "Y", "Z">>

Lowers == <<"a", "b", "c", "d", "e", "f", "g", "h", "i", "j", "k", "l", "m", "n", "o", "p", "q", "r", "s", "t", "u", "v", "w", "x", "y", "z">>

Digits == <<"0", "1", "2", "3", "4", "5", "6", "7", "8", "9">>

IsUpper(ch) == ch \in Range(Uppers)

IsLower(ch) == ch \in Range(Lowers)

IsAlpha(ch) == IsUpper(ch) \/ IsLower(ch)

IsDigit(ch) == ch \in Range(Digits)

\* str.lower() on one character
ToLower(ch) ==
    IF IsUpper(ch) THEN Lowers[CHOOSE i \in DOMAIN Uppers : Uppers[i] = ch] ELSE ch

ToUpper(ch) ==
    IF IsLower(ch) THEN Uppers[CHOOSE i \in DOMAIN Lowers : Lowers[i] = ch] ELSE ch

DigitValue(ch) == (CHOOSE i \in DOMAIN Digits : Digits[i] = ch) - 1

\* needle in haystack, both character sequences
Contains(hay, needle) ==
    \E i \in 0..(Len(hay) - Len(needle)) :
        \A j \in 1..Len(needle) : hay[i + j] = needle[j]

\* astype(str) of a cell of an object column: a missing value reads "nan"
astype_str(c) ==
    IF c.k = "str" THEN c.s ELSE IF c.k = "na" THEN "nan" ELSE ToString(c.n)

---------------------------------------------------------------------------
(* check_rare_categories *)

\* the default min_ratio = 0.01 (line 97), as 1 / MIN_RATIO_DEN
MIN_RATIO_DEN == 100

\* the distinct values of a sequence, in order of first appearance
Distinct(s) ==
    LET p == Positions([i \in DOMAIN s |-> \A j \in 1..(i - 1) : s[j] # s[i]])
    IN  [k \in 1..Len(p) |-> s[p[k]]]

Occurrences(s, v) == Cardinality({i \in DOMAIN s : s[i] = v})

\* value_counts orders by descending count; values of equal count keep the
\* order of their first appearance.
RECURSIVE InsertByCount(_, _, _)
InsertByCount(v, sorted, s) ==
    IF sorted = <<>> THEN <<v>>
    ELSE IF Occurrences(s, v) > Occurrences(s, Head(sorted)) THEN <<v>> \o sorted
    ELSE <<Head(sorted)>> \o InsertByCount(v, Tail(sorted), s)

RECURSIVE SortByCount(_, _)
SortByCount(vals, s) ==
    IF vals = <<>> THEN <<>>
    ELSE InsertByCount(vals[Len(vals)], SortByCount(SubSeq(vals, 1, Len(vals) - 1), s), s)

\* vc[vc < min_ratio]: the values whose relative frequency is below min_ratio
RareValues(s) ==
    SelectSeq(SortByCount(Distinct(s), s),
              LAMBDA v : RLess(Rat(Occurrences(s, v), Len(s)), Rat(1, MIN_RATIO_DEN)))

RECURSIVE RareFrom(_, _)
RareFrom(d, i) ==
    IF i > Len(d.columns) THEN <<>>
    ELSE
      LET c    == d.columns[i]
          s    == [j \in 1..len(d) |-> astype_str(d.rows[j][c])]
          rare == RareValues(s)
          top  == head(rare, 5)
      IN  IF is_string_dtype(d, c) /\ Len(rare) > 0
          THEN <<CheckResult(Name("Rare Categories", ": ", c), "minor",
                   <<[n_rare   |-> Len(rare),
                      examples |-> [k \in 1..Len(top) |->
                                      <<top[k], Rat(Occurrences(s, top[k]), Len(s))>>]]>>,
                   norm(RInt(Len(rare)), RInt(50)))>>
                 \o RareFrom(d, i + 1)
          ELSE RareFrom(d, i + 1)

check_rare_categories(d) == RareFrom(d, 1)

---------------------------------------------------------------------------
(* check_semantic_regex *)

\* [A-Za-z0-9._%+-]
EmailLocal(ch) == IsAlpha(ch) \/ IsDigit(ch) \/ ch \in {".", "_", "%", "+", "-"}

\* [A-Za-z0-9.-]
EmailDomain(ch) == IsAlpha(ch) \/ IsDigit(ch) \/ ch \in {".", "-"}

\* ^[A-Za-z0-9._%+-]+@[A-Za-z0-9.-]+\.[A-Za-z]{2,}$
MatchEmail(w) ==
    \E at \in 1..Len(w) : \E dot \in (at + 1)..Len(w) :
        /\ w[at] = "@"
        /\ w[dot] = "."
        /\ at > 1
        /\ \A i \in 1..(at - 1) : EmailLocal(w[i])
        /\ dot > at + 1
        /\ \A i \in (at + 1)..(dot - 1) : EmailDomain(w[i])
        /\ Len(w) - dot >= 2
        /\ \A i \in (dot + 1)..Len(w) : IsAlpha(w[i])

\* One position of the postcode grammar: a character class, possibly
\* optional.  The pattern is compiled with re.I, so a letter class takes
\* either case.
Tok(cls, opt) == [cls |-> cls, opt |-> opt]

InClass(ch, cls) ==
    CASE cls = "A"   -> IsAlpha(ch)
      [] cls = "H"   -> IsAlpha(ch) /\ ToUpper(ch) \notin {"I", "Z"}
      [] cls = "9"   -> IsDigit(ch)
      [] cls = " "   -> ch = " "
      [] OTHER       -> ToUpper(ch) = cls

RECURSIVE MatchToks(_, _, _, _)
MatchToks(w, i, pat, j) ==
    IF j > Len(pat) THEN i > Len(w)
    ELSE \/ i <= Len(w) /\ InClass(w[i], pat[j].cls) /\ MatchToks(w, i + 1, pat, j + 1)
         \/ pat[j].opt /\ MatchToks(w, i, pat, j + 1)

\* the inward part " ?[0-9][A-Z]{2}"
Inward == <<Tok(" ", TRUE), Tok("9", FALSE), Tok("A", FALSE), Tok("A", FALSE)>>

\* the alternatives of SEMANTIC_PATTERNS["uk_postcode"]
PostcodePatterns ==
    { <<Tok("G", FALSE), Tok("I", FALSE), Tok("R", FALSE), Tok(" ", TRUE),
        Tok("0", FALSE), Tok("A", FALSE), Tok("A", FALSE)>>,
      <<Tok("A", FALSE), Tok("9", FALSE), Tok("9", TRUE)>> \o Inward,
      <<Tok("A", FALSE), Tok("H", FALSE), Tok("9", FALSE), Tok("9", TRUE)>> \o Inward,
      <<Tok("A", FALSE), Tok("9", FALSE), Tok("A", FALSE)>> \o Inward,
      <<Tok("A", FALSE), Tok("H", FALSE), Tok("9", TRUE), Tok("A", FALSE)>> \o Inward }

MatchPostcode(w) == \E pat \in PostcodePatterns : MatchToks(w, 1, pat, 1)

\* str.contains(r"[A-Z]\d"), case-sensitive
LooksPostcode(w) == \E i \in 1..(Len(w) - 1) : IsUpper(w[i]) /\ IsDigit(w[i + 1])

\* df[c].dropna().astype(str)
TextSample(s) ==
    LET p == Positions([i \in DOMAIN s |-> ~isna(s[i])])
    IN  [k \in 1..Len(p) |-> Chars(astype_str(s[p[k]]))]

\* the findings of one column's sample
SemanticOf(c, sample) ==
    LET n          == Len(sample)
        like_email == 2 * Cardinality({i \in 1..n : Contains(sample[i], <<"@">>)}) > n
        like_pc    == 2 * Cardinality({i \in 1..n : LooksPostcode(sample[i])}) > n
        bad_email  == Rat(Cardinality({i \in 1..n : ~MatchEmail(sample[i])}), n)
        bad_pc     == Rat(Cardinality({i \in 1..n : ~MatchPostcode(sample[i])}), n)
    IN  (IF like_email /\ RLess(Rat(3, 10), bad_email)
         THEN <<CheckResult(Name("Semantic Violations (email)", " in ", c), "major",
                            <<[fail_rate |-> Round(bad_email, 3)]>>,
                            RMin(RInt(1), bad_email))>>
         ELSE <<>>)
        \o
        (IF like_pc /\ RLess(Rat(3, 10), bad_pc)
         THEN <<CheckResult(Name("Semantic Violations (UK postcode)", " in ", c), "major",
                            <<[fail_rate |-> Round(bad_pc, 3)]>>,
                            RMin(RInt(1), bad_pc))>>
         ELSE <<>>)

RECURSIVE SemanticFrom(_, _)
SemanticFrom(d, i) ==
    IF i > Len(d.columns) THEN <<>>
    ELSE
      LET c      == d.columns[i]
          sample == TextSample(Column(d, c))
      IN  IF is_string_dtype(d, c) /\ Len(sample) > 0
          THEN SemanticOf(c, sample) \o SemanticFrom(d, i + 1)
          ELSE SemanticFrom(d, i + 1)

check_semantic_regex(d) == SemanticFrom(d, 1)

---------------------------------------------------------------------------
(* check_dates *)

\* the number a two- or four-digit field of a date text stands for
RECURSIVE Digits2Int(_, _, _)
Digits2Int(w, from, to) ==
    IF to < from THEN 0
    ELSE 10 * Digits2Int(w, from, to - 1) + DigitValue(w[to])

\* a text of the form YYYY-MM-DD
IsIsoDate(w) ==
    /\ Len(w) = 10
    /\ w[5] = "-" /\ w[8] = "-"
    /\ \A i \in {1, 2, 3, 4, 6, 7, 9, 10} : IsDigit(w[i])
    /\ Digits2Int(w, 6, 7) \in 1..12
    /\ Digits2Int(w, 9, 10) \in 1..31

\* pd.to_datetime(cell, errors="coerce", utc=True): a timestamp, as a number
\* that orders as the timestamps do, or NaT.  A missing value and a text that
\* is no date give NaT (the texts of the model are ISO dates or no dates at
\* all); a number is read as an offset from the epoch.
to_datetime(c) ==
    IF c.k = "na" THEN NA
    ELSE IF c.k = "num" THEN Num(c.n)
    ELSE LET w == Chars(c.s)
         IN  IF IsIsoDate(w)
             THEN Num((Digits2Int(w, 1, 4) - 2000) * 372
                        + Digits2Int(w, 6, 7) * 31 + Digits2Int(w, 9, 10))
             ELSE NA

\* "date" in c.lower() or is_datetime64_any_dtype(df[c])
IsDateColumn(d, c) ==
    \/ Contains([i \in 1..Len(Chars(c)) |-> ToLower(Chars(c)[i])], <<"d", "a", "t", "e">>)
    \/ dtype(d, c) = "datetime64[ns]"

Parsed(d, c) == [i \in 1..len(d) |-> to_datetime(d.rows[i][c])]

RECURSIVE InvalidFrom(_, _)
InvalidFrom(d, i) ==
    IF i > Len(d.columns) THEN <<>>
    ELSE
      LET c       == d.columns[i]
          invalid == CountTrue([j \in 1..len(d) |-> isna(Parsed(d, c)[j])])
      IN  IF IsDateColumn(d, c) /\ invalid > 0
          THEN <<CheckResult(Name("Invalid Dates", ": ", c), "minor",
                             <<[invalid |-> invalid]>>,
                             norm(RInt(invalid), RowCap(len(d), 5)))>>
                 \o InvalidFrom(d, i + 1)
          ELSE InvalidFrom(d, i + 1)

\* parsed["ship_date"] < parsed["order_date"] on one row; NaT compares false
ShipBeforeOrder(d, i) ==
    LET o == to_datetime(d.rows[i]["order_date"])
        s == to_datetime(d.rows[i]["ship_date"])
    IN  ~isna(o) /\ ~isna(s) /\ s.n < o.n

\* The rule's name is "Temporal Rule: ship_date >= order_date", written in the
\* source with the sign U+2265.
TEMPORAL_RULE == "Temporal Rule: ship_date >= order_date"

\* check_dates without the temporal rule: a faulty variant that C8 must tell
\* from check_dates
check_dates_without_rule(d) == InvalidFrom(d, 1)

check_dates(d) ==
    InvalidFrom(d, 1)
    \o
    (IF {"order_date", "ship_date"} \subseteq ColumnSet(d)
     THEN LET bad == CountTrue([i \in 1..len(d) |-> ShipBeforeOrder(d, i)])
          IN  IF bad > 0
              THEN <<CheckResult(Name(TEMPORAL_RULE, "", ""), "major",
                                 <<[violations |-> bad]>>,
                                 norm(RInt(bad), RowCap(len(d), 5)))>>
              ELSE <<>>
     ELSE <<>>)

---------------------------------------------------------------------------
(* compute_score *)

\* the penalty after the loop over results[1..i]
\* the penalty assigned where the loop should add (= for +=): a faulty
\* variant that C3 must tell from Penalty
Penalty_overwrite(rs, i) ==
    IF i = 0 THEN RInt(0)
    ELSE RMul(RInt(SEVERITY_WEIGHTS(rs[i].severity) * 10), rs[i].impact)

RECURSIVE Penalty(_, _)
Penalty(rs, i) ==
    IF i = 0 THEN RInt(0)
    ELSE RAdd(Penalty(rs, i - 1),
              RMul(RInt(SEVERITY_WEIGHTS(rs[i].severity) * 10), rs[i].impact))

compute_score(rs) ==
    Round(RMax(RInt(0), RSub(RInt(100), Penalty(rs, Len(rs)))), 1)


---------------------------------------------------------------------------
(* The enrichment stage of the run callback. *)

\* info[key] = value on an issue record
Put(info, key, value) ==
    [k \in DOMAIN info \cup {key} |-> IF k = key THEN value ELSE info[k]]

\* the index labels of the default RangeIndex at the given positions
Labels(positions) == [i \in 1..Len(positions) |-> positions[i] - 1]

\* the first position from i on of a finding named "Duplicate Rows" that has
\* an issue record, or 0
RECURSIVE FirstDuplicateRows(_, _)
FirstDuplicateRows(rs, i) ==
    IF i > Len(rs) THEN 0
    ELSE IF rs[i].name = Name("Duplicate Rows", "", "") /\ rs[i].issues # <<>> THEN i
    ELSE FirstDuplicateRows(rs, i + 1)

\* the enrichment extending a row_indices list it finds in place: a faulty
\* variant that C7 must tell from enrich_duplicates
enrich_duplicates_extending(d, rs) ==
    LET dup == Positions(duplicated(d, ColumnSet(d), "none"))
        k   == FirstDuplicateRows(rs, 1)
    IN  IF dup = <<>> \/ k = 0 THEN rs
        ELSE
          LET top  == head(dup, 10)
              old  == IF "row_indices" \in DOMAIN rs[k].issues[1]
                      THEN rs[k].issues[1].row_indices ELSE <<>>
              info == Put(Put(Put(rs[k].issues[1],
                          "row_indices", old \o Labels(dup)),
                          "sample_rows", [i \in 1..Len(top) |-> d.rows[top[i]]]),
                          "columns", d.columns)
          IN  [rs EXCEPT ![k].issues[1] = info]

\* the enrichment putting a fresh record in place of the issue record: a
\* faulty variant that C10 must tell from enrich_duplicates
enrich_duplicates_replacing(d, rs) ==
    LET dup == Positions(duplicated(d, ColumnSet(d), "none"))
        k   == FirstDuplicateRows(rs, 1)
    IN  IF dup = <<>> \/ k = 0 THEN rs
        ELSE
          LET top  == head(dup, 10)
              info == [row_indices |-> Labels(dup),
                       sample_rows |-> [i \in 1..Len(top) |-> d.rows[top[i]]],
                       columns     |-> d.columns]
          IN  [rs EXCEPT ![k].issues[1] = info]

\* lines 273-283
enrich_duplicates(d, rs) ==
    LET dup == Positions(duplicated(d, ColumnSet(d), "none"))
        k   == FirstDuplicateRows(rs, 1)
    IN  IF dup = <<>> \/ k = 0 THEN rs
        ELSE
          LET top  == head(dup, 10)
              info == Put(Put(Put(rs[k].issues[1],
                          "row_indices", Labels(dup)),
                          "sample_rows", [i \in 1..Len(top) |-> d.rows[top[i]]]),
                          "columns", d.columns)
          IN  [rs EXCEPT ![k].issues[1] = info]

\* str.strip() on a character sequence
RECURSIVE LStrip(_)
LStrip(w) == IF w # <<>> /\ Head(w) = " " THEN LStrip(Tail(w)) ELSE w

RECURSIVE RStrip(_)
RStrip(w) ==
    IF w # <<>> /\ w[Len(w)] = " " THEN RStrip(SubSeq(w, 1, Len(w) - 1)) ELSE w

\* r.name.split(":", 1)[1].strip(): the text after the first colon, which is
\* the separator's blank and the column's name, stripped
ColumnOfName(name) == FromChars(RStrip(LStrip(<<" ">> \o Chars(name.col))))

\* s[mask].sort_values(key=abs, ascending=False): the positions ordered by
\* descending absolute value, equal magnitudes in row order
RECURSIVE InsertByAbs(_, _, _)
InsertByAbs(p, sorted, s) ==
    IF sorted = <<>> THEN <<p>>
    ELSE IF Abs(s[p].n) > Abs(s[Head(sorted)].n) THEN <<p>> \o sorted
    ELSE <<Head(sorted)>> \o InsertByAbs(p, Tail(sorted), s)

RECURSIVE SortByAbs(_, _)
SortByAbs(ps, s) ==
    IF ps = <<>> THEN <<>>
    ELSE InsertByAbs(ps[Len(ps)], SortByAbs(SubSeq(ps, 1, Len(ps) - 1), s), s)

\* the f-string of lines 305-308: the column and the two cutoffs to three
\* decimals
Explain(col, lo, hi) == <<col, Round(lo.r, 3), Round(hi.r, 3)>>

\* lines 293-308 on one finding
EnrichOutlier(d, r) ==
    LET col == ColumnOfName(r.name)
    IN  IF col = "" \/ col \notin ColumnSet(d) \/ r.issues = <<>> THEN r
        ELSE
          LET info   == r.issues[1]
              lo     == info.lo
              hi     == info.hi
              s      == Column(d, col)
              mask   == [i \in 1..len(d) |-> s[i].k = "num" /\ Outside(s[i].n, lo, hi)]
              idxs   == Positions(mask)
              top    == head(SortByAbs(idxs, s), 10)
              sample == [i \in 1..Len(top) |->
                            [index |-> top[i] - 1, value |-> s[top[i]].n]]
          IN  [r EXCEPT !.issues[1] =
                  Put(Put(Put(Put(info,
                      "column", col),
                      "row_indices", Labels(idxs)),
                      "sample_values", sample),
                      "explain", Explain(col, lo, hi))]

\* r.name.startswith("IQR Outliers"): of the rule texts only "IQR Outliers"
\* begins so
IsOutlierName(name) == name.rule = "IQR Outliers"

\* lines 286-308
enrich_iqr(d, rs) ==
    [i \in 1..Len(rs) |->
        IF IsOutlierName(rs[i].name) THEN EnrichOutlier(d, rs[i]) ELSE rs[i]]

---------------------------------------------------------------------------
(* The datasets and baselines of the model. *)

Repeat(x, n) == [i \in 1..n |-> x]

Datasets(cols, pool, lo, hi) ==
    {DataFrame(cols, rows) : rows \in UNION {[1..n -> pool] : n \in lo..hi}}

OrderColumns == <<"id", "order_date", "ship_date">>

OrderRow(id, od, sd) == ("id" :> id) @@ ("order_date" :> od) @@ ("ship_date" :> sd)

OrderRows ==
    { OrderRow(Num(1), Str("2024-01-05"), Str("2024-01-07")),
      OrderRow(Num(1), Str("2024-01-05"), Str("2024-01-03")),
      OrderRow(Num(2), Str("not a date"), Str("2024-01-07")),
      OrderRow(Num(3), NA,                Str("2024-01-07")) }

OrderDtypes == <<<<"id", "int64">>, <<"order_date", "object">>, <<"ship_date", "object">>>>

OrderBaselines ==
    { None,
      Dict({}, <<>>, <<>>, <<>>),
      Dict({"columns", "dtypes"}, OrderColumns, OrderDtypes, <<>>),
      Dict({"columns", "dtypes", "primary_key"}, OrderColumns, OrderDtypes, <<>>),
      Dict({"columns", "dtypes", "primary_key"}, OrderColumns, OrderDtypes, <<"id">>),
      Dict({"columns", "dtypes", "primary_key"}, OrderColumns, OrderDtypes,
           <<"id", "order_date">>),
      Dict({"columns", "dtypes", "primary_key"}, OrderColumns, OrderDtypes,
           <<"customer">>),
      Dict({"primary_key"}, <<>>, <<>>, <<"id">>) }

GenericColumns == <<"a", "b">>

GenericRow(a, b) == ("a" :> a) @@ ("b" :> b)

GenericRows ==
    { GenericRow(Num(1), Str("x")), GenericRow(Num(2), Str("y")),
      GenericRow(NA, Str("x")), GenericRow(NA, NA) }

GenericBaselines ==
    { None,
      Dict({"columns", "dtypes"}, <<"a", "customer">>,
           <<<<"a", "int64">>, <<"customer", "object">>>>, <<>>) }

ContactRows ==
    { "contact" :> c : c \in {Str("a@b.co"), Str("a@b"), Str("SW1A 1AA"), Str("A1"), NA} }

\* an "amounts" dataset: one numeric column holding the given numbers of
\* 2s, 50s, missing values and 1s
AmountDf(n2, n50, nNA, n1) ==
    DataFrame(<<"amount">>,
              [i \in 1..(n2 + n50 + nNA + n1) |->
                  "amount" :> (IF i <= n2 THEN Num(2)
                               ELSE IF i <= n2 + n50 THEN Num(50)
                               ELSE IF i <= n2 + n50 + nNA THEN NA
                               ELSE Num(1))])

\* the sample s = [1, 2, 3, 4, 5, 6, 7, 8, 9, 100]
ExampleDf ==
    DataFrame(<<"amount">>,
              [i \in 1..10 |-> "amount" :> Num(IF i = 10 THEN 100 ELSE i)])

\* the same sample under a header with a leading blank, as read_csv keeps it
\* from a header line "id, amount"
PaddedExampleDf ==
    DataFrame(<<" amount">>,
              [i \in 1..10 |-> " amount" :> Num(IF i = 10 THEN 100 ELSE i)])

AmountDatasets ==
    { AmountDf(n[1], n[2], n[3], n[4]) :
        n \in { m \in (0..MaxAmountRows) \X (0..MaxAmountRows)
                        \X (0..MaxAmountRows) \X (0..MaxAmountRows) :
                  m[1] + m[2] + m[3] + m[4] \in (MIN_SAMPLE - 1)..MaxAmountRows } }
    \cup {ExampleDf}

\* a "cities" dataset: one categorical column, mostly "a"
CityDf(n, nb, nc) ==
    DataFrame(<<"city">>,
              [i \in 1..n |->
                  "city" :> (IF i <= nb THEN Str("b")
                             ELSE IF i <= nb + nc THEN Str("c")
                             ELSE Str("a"))])

CityDatasets ==
    { CityDf(n, nb, nc) : n \in MIN_RATIO_DEN..MaxCityRows, nb \in 0..1, nc \in 0..1 }

Inputs ==
    (Datasets(OrderColumns, OrderRows, 0, MaxOrderRows) \X OrderBaselines)
    \cup (Datasets(GenericColumns, GenericRows, 0, MaxRows) \X GenericBaselines)
    \cup (Datasets(<<"contact">>, ContactRows, 0, MaxContactRows) \X {None})
    \cup (AmountDatasets \X {None})
    \cup ({PaddedExampleDf} \X {None})
    \cup (CityDatasets \X {None})

---------------------------------------------------------------------------
(* Uploads and outputs of an audit.                                        *)
(* Decoding CSV/XLSX bytes and JSON text is left to pandas and json: an    *)
(* upload is modelled by what decoding it yields, or by the fact that      *)
(* decoding it raises.                                                     *)

\* no file given (contents is None)
NoUpload == [kind |-> "none", value |-> DataFrame(<<>>, <<>>)]

\* a file parse_contents / load_df raises on
UndecodableFile == [kind |-> "undecodable", value |-> DataFrame(<<>>, <<>>)]

\* a file that decodes to the dataset d
File(d) == [kind |-> "file", value |-> d]

NoBaselineUpload == [kind |-> "none", value |-> None]

\* a baseline file json.loads / json.load raises on
UnparsableBaseline == [kind |-> "undecodable", value |-> None]

\* a baseline file that parses to the document b
Json(b) == [kind |-> "file", value |-> b]

\* the uploads that yield the dataset and baseline of an input
UploadsOf(in) ==
    <<File(in[1]), IF in[2] = None THEN NoBaselineUpload ELSE Json(in[2])>>

\* uploads the audit cannot read: no or an undecodable data file, with and
\* without a baseline, and a readable data file with an unparsable baseline
FailingUploads ==
    ({NoUpload, UndecodableFile}
        \X {NoBaselineUpload, UnparsableBaseline, Json(Dict({"primary_key"}, <<>>, <<>>, <<"id">>))})
    \cup ({File(d) : d \in Datasets(OrderColumns, OrderRows, 0, 1)} \X {UnparsableBaseline})

\* nothing returned, written or raised yet
NoOutput ==
    [status |-> "", summary |-> <<>>, download |-> <<>>, store |-> <<>>,
     written |-> <<>>, raised |-> ""]

\* run's early return: return message, [], [], None
Failure(message) == [NoOutput EXCEPT !.status = message]

\* an exception that leaves the entry point
Raised(exception) == [NoOutput EXCEPT !.raised = exception]

\* Counter([r.severity for r in results]).get(sev, 0)
sev_counts(rs, sev) == Len(SelectSeq(rs, LAMBDA r : r.severity = sev))

\* the dict handed to render_report
ReportOf(d, rs, sc) ==
    [rows |-> len(d), columns |-> d.columns, results |-> rs, score |-> sc]

\* run's return value after an audit: status, summary cards, download link
\* holding the rendered report, and the stored findings
AuditOutput(d, rs, sc) ==
    [NoOutput EXCEPT
       !.status   = "Audit complete",
       !.summary  = <<[score |-> sc,
                       critical |-> sev_counts(rs, "critical"),
                       major |-> sev_counts(rs, "major"),
                       minor |-> sev_counts(rs, "minor"),
                       rows |-> len(d), columns |-> Len(d.columns)]>>,
       !.download = <<ReportOf(d, rs, sc)>>,
       !.store    = <<[results |-> rs]>>]

\* main's effect after an audit: the report file written and the line printed
ReportWritten(d, rs, sc) ==
    [NoOutput EXCEPT !.status = "Report written", !.written = <<ReportOf(d, rs, sc)>>]

---------------------------------------------------------------------------
(* The audit: the run callback of app.py (entry = "run") and main of       *)
(* run_audit.py (entry = "main"), from loading the inputs to the report.   *)

Unloaded ==
    /\ df = DataFrame(<<>>, <<>>)
    /\ baseline = None
    /\ results = <<>>
    /\ score = <<>>
    /\ out = NoOutput
    /\ completed = {}
    /\ pc = "load_data"

Init ==
    /\ entry = "run"
    /\ \E up \in {UploadsOf(in) : in \in Inputs} \cup FailingUploads :
         data_contents = up[1] /\ base_contents = up[2]
    /\ Unloaded

\* app.py 245-251: no data file and an undecodable one return a message;
\* run_audit.py 160: load_df raises
LoadData ==
    /\ pc = "load_data"
    /\ IF data_contents.kind = "file"
       THEN /\ df' = data_contents.value
            /\ completed' = completed \cup {"load_data"}
            /\ pc' = "load_baseline"
            /\ UNCHANGED out
       ELSE /\ IF entry = "run"
               THEN /\ out' = Failure(IF data_contents.kind = "none"
                                      THEN "No data file uploaded."
                                      ELSE "Failed to read data")
                    /\ pc' = "failed"
               ELSE /\ out' = Raised("load_df")
                    /\ pc' = "error"
            /\ UNCHANGED <<df, completed>>
    /\ UNCHANGED <<data_contents, base_contents, entry, baseline, results, score>>

\* the baseline step swallowing the parse error and going on without a
\* baseline: a faulty variant that C15 must tell from LoadBaseline
LoadBaseline_ignoring_errors ==
    /\ pc = "load_baseline"
    /\ baseline' = base_contents.value
    /\ completed' = completed \cup {"load_baseline"}
    /\ pc' = "check_schema"
    /\ UNCHANGED <<data_contents, base_contents, entry, df, results, score, out>>

\* app.py 253-259 and run_audit.py 161-164: the baseline stays None when no
\* file is given
LoadBaseline ==
    /\ pc = "load_baseline"
    /\ IF base_contents.kind # "undecodable"
       THEN /\ baseline' = base_contents.value
            /\ completed' = completed \cup {"load_baseline"}
            /\ pc' = "check_schema"
            /\ UNCHANGED out
       ELSE /\ IF entry = "run"
               THEN /\ out' = Failure("Failed to read baseline")
                    /\ pc' = "failed"
               ELSE /\ out' = Raised("json.load")
                    /\ pc' = "error"
            /\ UNCHANGED <<baseline, completed>>
    /\ UNCHANGED <<data_contents, base_contents, entry, df, results, score>>

RunCheckSchema ==
    /\ pc = "check_schema"
    /\ results' = results \o check_schema(df, baseline)
    /\ completed' = completed \cup {"check_schema"}
    /\ pc' = "check_primary_key"
    /\ UNCHANGED <<data_contents, base_contents, entry, df, baseline, score, out>>

\* lines 264-265: the check runs when the baseline holds a primary_key entry;
\* its KeyError is not caught and leaves the entry point
RunCheckPrimaryKey ==
    /\ pc = "check_primary_key"
    /\ IF Truthy(baseline) /\ "primary_key" \in baseline.keys
       THEN IF check_primary_key_raises(df, Get(baseline, "primary_key", <<>>))
            THEN /\ pc' = "error"
                 /\ out' = Raised("KeyError")
                 /\ UNCHANGED <<results, completed>>
            ELSE /\ results' = results
                        \o check_primary_key(df, Get(baseline, "primary_key", <<>>))
                 /\ completed' = completed \cup {"check_primary_key"}
                 /\ pc' = "check_missing_duplicates_types"
                 /\ UNCHANGED out
       ELSE /\ pc' = "check_missing_duplicates_types"
            /\ completed' = completed \cup {"check_primary_key"}
            /\ UNCHANGED <<results, out>>
    /\ UNCHANGED <<data_contents, base_contents, entry, df, baseline, score>>

RunCheckMissingDuplicates ==
    /\ pc = "check_missing_duplicates_types"
    /\ results' = results \o check_missing_duplicates_types(df)
    /\ completed' = completed \cup {"check_missing_duplicates_types"}
    /\ pc' = "check_outliers_iqr"
    /\ UNCHANGED <<data_contents, base_contents, entry, df, baseline, score, out>>

RunCheckOutliers ==
    /\ pc = "check_outliers_iqr"
    /\ results' = results \o check_outliers_iqr(df)
    /\ completed' = completed \cup {"check_outliers_iqr"}
    /\ pc' = "check_rare_categories"
    /\ UNCHANGED <<data_contents, base_contents, entry, df, baseline, score, out>>

RunCheckRareCategories ==
    /\ pc = "check_rare_categories"
    /\ results' = results \o check_rare_categories(df)
    /\ completed' = completed \cup {"check_rare_categories"}
    /\ pc' = "check_semantic_regex"
    /\ UNCHANGED <<data_contents, base_contents, entry, df, baseline, score, out>>

\* the semantic check handing over to enrichment with check_dates still to
\* run: a faulty variant that C13 must tell from RunCheckSemantic
RunCheckSemantic_before_enrichment ==
    /\ pc = "check_semantic_regex"
    /\ results' = results \o check_semantic_regex(df)
    /\ completed' = completed \cup {"check_semantic_regex"}
    /\ pc' = "enrich_duplicates"
    /\ UNCHANGED <<data_contents, base_contents, entry, df, baseline, score, out>>

RunCheckSemantic ==
    /\ pc = "check_semantic_regex"
    /\ results' = results \o check_semantic_regex(df)
    /\ completed' = completed \cup {"check_semantic_regex"}
    /\ pc' = "check_dates"
    /\ UNCHANGED <<data_contents, base_contents, entry, df, baseline, score, out>>

\* the callback goes on to its enrichment (app.py 272), main to its summary
\* and score (run_audit.py 178)
RunCheckDates ==
    /\ pc = "check_dates"
    /\ results' = results \o check_dates(df)
    /\ completed' = completed \cup {"check_dates"}
    /\ pc' = IF entry = "run" THEN "enrich_duplicates" ELSE "compute_score"
    /\ UNCHANGED <<data_contents, base_contents, entry, df, baseline, score, out>>

EnrichDuplicates ==
    /\ pc = "enrich_duplicates"
    /\ results' = enrich_duplicates(df, results)
    /\ completed' = completed \cup {"enrich_duplicates"}
    /\ pc' = "enrich_iqr"
    /\ UNCHANGED <<data_contents, base_contents, entry, df, baseline, score, out>>

EnrichOutliers ==
    /\ pc = "enrich_iqr"
    /\ results' = enrich_iqr(df, results)
    /\ completed' = completed \cup {"enrich_iqr"}
    /\ pc' = "compute_score"
    /\ UNCHANGED <<data_contents, base_contents, entry, df, baseline, score, out>>

ComputeScore ==
    /\ pc = "compute_score"
    /\ score' = compute_score(results)
    /\ completed' = completed \cup {"compute_score"}
    /\ pc' = "render_report"
    /\ UNCHANGED <<data_contents, base_contents, entry, df, baseline, results, out>>

\* app.py 314-351: summary, rendered report, download link, store, return;
\* run_audit.py 178-187: summary, report written to args.out
RenderReport ==
    /\ pc = "render_report"
    /\ out' = IF entry = "run" THEN AuditOutput(df, results, score)
              ELSE ReportWritten(df, results, score)
    /\ completed' = completed \cup {"render_report"}
    /\ pc' = "done"
    /\ UNCHANGED <<data_contents, base_contents, entry, df, baseline, results, score>>

Next ==
    \/ LoadData
    \/ LoadBaseline
    \/ RunCheckSchema
    \/ RunCheckPrimaryKey
    \/ RunCheckMissingDuplicates
    \/ RunCheckOutliers
    \/ RunCheckRareCategories
    \/ RunCheckSemantic
    \/ RunCheckDates
    \/ EnrichDuplicates
    \/ EnrichOutliers
    \/ ComputeScore
    \/ RenderReport

Spec == Init /\ [][Next]_vars

\* the inputs main is run on: "orders" datasets with the orders baselines
MainInputs == Datasets(OrderColumns, OrderRows, 0, MaxMainRows) \X OrderBaselines

InitMain ==
    /\ entry = "main"
    /\ \E up \in {UploadsOf(in) : in \in MainInputs} \cup FailingUploads :
         data_contents = up[1] /\ base_contents = up[2]
    /\ Unloaded

\* both entry points
SpecEntryPoints == (Init \/ InitMain) /\ [][Next]_vars

---------------------------------------------------------------------------
(* The seven checks of main run in any order: the statements of            *)
(* run_audit.py 167-175 scheduled one at a time in an order of the         *)
(* scheduler's choosing, each appending its list to results as it ends.    *)

CheckNames ==
    {"check_schema", "check_primary_key", "check_missing_duplicates_types",
     "check_outliers_iqr", "check_rare_categories", "check_semantic_regex",
     "check_dates"}

\* what the statement of check c adds to results
CheckOutput(c, d, b) ==
    CASE c = "check_schema" -> check_schema(d, b)
      [] c = "check_primary_key" ->
           IF Truthy(b) /\ "primary_key" \in b.keys
           THEN check_primary_key(d, Get(b, "primary_key", <<>>)) ELSE <<>>
      [] c = "check_missing_duplicates_types" -> check_missing_duplicates_types(d)
      [] c = "check_outliers_iqr" -> check_outliers_iqr(d)
      [] c = "check_rare_categories" -> check_rare_categories(d)
      [] c = "check_semantic_regex" -> check_semantic_regex(d)
      [] c = "check_dates" -> check_dates(d)

\* the statement of check c raises
CheckRaises(c, d, b) ==
    /\ c = "check_primary_key"
    /\ Truthy(b) /\ "primary_key" \in b.keys
    /\ check_primary_key_raises(d, Get(b, "primary_key", <<>>))

AnyOrderBaselines ==
    { None,
      Dict({"columns", "dtypes", "primary_key"}, OrderColumns, OrderDtypes, <<"id">>),
      Dict({"columns", "dtypes", "primary_key"}, OrderColumns, OrderDtypes,
           <<"customer">>) }

AnyOrderInputs ==
    Datasets(OrderColumns, OrderRows, 0, MaxInterleavedRows) \X AnyOrderBaselines

InitAnyOrder ==
    /\ entry = "main"
    /\ \E in \in AnyOrderInputs :
         /\ data_contents = UploadsOf(in)[1]
         /\ base_contents = UploadsOf(in)[2]
         /\ df = in[1]
         /\ baseline = in[2]
    /\ results = <<>>
    /\ score = <<>>
    /\ out = NoOutput
    /\ completed = {"load_data", "load_baseline"}
    /\ pc = "checks"

\* the scheduler with check_schema assigning its list to results (= for +=),
\* which is harmless only when it runs first: a faulty variant that C14 must
\* tell from RunAnyCheck
RunAnyCheck_schema_assigning ==
    /\ pc = "checks"
    /\ \E c \in CheckNames \ completed :
         IF CheckRaises(c, df, baseline)
         THEN /\ pc' = "error"
              /\ out' = Raised("KeyError")
              /\ UNCHANGED <<results, completed>>
         ELSE /\ results' = IF c = "check_schema" THEN CheckOutput(c, df, baseline)
                            ELSE results \o CheckOutput(c, df, baseline)
              /\ completed' = completed \cup {c}
              /\ pc' = IF CheckNames \subseteq completed' THEN "compute_score" ELSE "checks"
              /\ UNCHANGED out
    /\ UNCHANGED <<data_contents, base_contents, entry, df, baseline, score>>

RunAnyCheck ==
    /\ pc = "checks"
    /\ \E c \in CheckNames \ completed :
         IF CheckRaises(c, df, baseline)
         THEN /\ pc' = "error"
              /\ out' = Raised("KeyError")
              /\ UNCHANGED <<results, completed>>
         ELSE /\ results' = results \o CheckOutput(c, df, baseline)
              /\ completed' = completed \cup {c}
              /\ pc' = IF CheckNames \subseteq completed' THEN "compute_score" ELSE "checks"
              /\ UNCHANGED out
    /\ UNCHANGED <<data_contents, base_contents, entry, df, baseline, score>>

NextAnyOrder == RunAnyCheck \/ ComputeScore \/ RenderReport

SpecAnyOrder == InitAnyOrder /\ [][NextAnyOrder]_vars

---------------------------------------------------------------------------
(* The scorer on its own: compute_score applied to finding lists built from *)
(* findings as the checks emit them.                                        *)

\* findings of the three severities, their impacts computed by norm as the
\* emitting checks compute them
EmittableFindings ==
    { CheckResult(Name("Primary Key Uniqueness", "", ""), "critical",
                  <<[duplicates |-> x, examples |-> <<>>]>>,
                  norm(RInt(x), RowCap(x + 1, 2))) : x \in {1, 12} }
    \cup
    { CheckResult(Name("Duplicate Rows", "", ""), "major",
                  <<[duplicates |-> 12]>>, norm(RInt(12), RowCap(13, 3))),
      CheckResult(Name("Dtype Drift", "", ""), "major",
                  <<[column |-> "id", expected |-> "int64", actual |-> "float64"]>>,
                  norm(RInt(1), RInt(15))),
      CheckResult(Name("Invalid Dates", ": ", "order_date"), "minor",
                  <<[invalid |-> 1]>>, norm(RInt(1), RowCap(1, 5))) }

InitScore ==
    /\ data_contents = NoUpload
    /\ base_contents = NoBaselineUpload
    /\ entry = "run"
    /\ df = DataFrame(<<>>, <<>>)
    /\ baseline = None
    /\ results = <<>>
    /\ score = <<>>
    /\ out = NoOutput
    /\ completed = {}
    /\ pc = "compute_score"

AppendFinding ==
    /\ Len(results) < MaxFindings
    /\ \E f \in EmittableFindings : results' = Append(results, f)
    /\ score' = <<>>
    /\ UNCHANGED <<data_contents, base_contents, entry, df, baseline, out, completed, pc>>

ScoreFindings ==
    /\ score = <<>>
    /\ score' = compute_score(results)
    /\ UNCHANGED <<data_contents, base_contents, entry, df, baseline, results, out,
                   completed, pc>>

NextScore == AppendFinding \/ ScoreFindings

SpecScore == InitScore /\ [][NextScore]_vars

---------------------------------------------------------------------------
(* Claims. *)

HasName(r, rule) == r.name.rule = rule

Named(rs, rule) == SelectSeq(rs, LAMBDA r : HasName(r, rule))

\* the baseline gives the Primary Key check nothing to check
NoPrimaryKey ==
    \/ baseline.kind = "none"
    \/ "primary_key" \notin baseline.keys
    \/ baseline.primary_key = <<>>

\* a step of check_schema without a baseline, or of the Primary Key check
\* with nothing to check, adds no finding and moves on to the next check
MissingInputStepIsNoOp ==
    /\ (pc = "check_schema" /\ baseline.kind = "none")
         => (results' = results /\ pc' = "check_primary_key")
    /\ (pc = "check_primary_key" /\ NoPrimaryKey)
         => (results' = results /\ pc' = "check_missing_duplicates_types")

\* C1: check_schema without a baseline returns no finding, and the Primary
\* Key check adds no finding and raises no error when the baseline is absent,
\* has no primary_key entry or has an empty primary_key list.
C1_MissingInputsAreNoOps == [][MissingInputStepIsNoOp]_vars

\* C1 witness: the Primary Key check was passed over for an empty
\* primary_key list on a dataset whose id column holds a duplicate
C1_Witness ==
    /\ pc = "check_missing_duplicates_types"
    /\ baseline.kind = "dict"
    /\ "primary_key" \in baseline.keys
    /\ baseline.primary_key = <<>>
    /\ "id" \in ColumnSet(df)
    /\ \E i, j \in 1..len(df) : i # j /\ df.rows[i]["id"] = df.rows[j]["id"]
    /\ Named(results, "Primary Key Uniqueness") = <<>>

AfterMissingCheck ==
    pc \in {"check_outliers_iqr", "check_rare_categories", "check_semantic_regex",
            "check_dates", "enrich_duplicates", "enrich_iqr", "compute_score",
            "render_report", "done"}

MissingCells(c) == {i \in 1..len(df) : df.rows[i][c] = NA}

\* C2: "Missing Values" is emitted iff some cell is missing, and then holds
\* exactly one {column, missing} record for each column with a missing cell,
\* with the exact number of its missing cells, and no other record.
C2_MissingValuesExact ==
    AfterMissingCheck =>
      LET mv == Named(results, "Missing Values")
      IN  /\ Len(mv) = IF \E c \in ColumnSet(df) : MissingCells(c) # {} THEN 1 ELSE 0
          /\ \A k \in 1..Len(mv) :
               LET issues == mv[k].issues
               IN  /\ \A i \in DOMAIN issues :
                        /\ DOMAIN issues[i] = {"column", "missing"}
                        /\ issues[i].column \in ColumnSet(df)
                        /\ issues[i].missing >= 1
                        /\ issues[i].missing = Cardinality(MissingCells(issues[i].column))
                   /\ \A c \in ColumnSet(df) :
                        Cardinality({i \in DOMAIN issues : issues[i].column = c})
                          = IF MissingCells(c) # {} THEN 1 ELSE 0

\* C2 witness: a finding with records for two columns, one missing twice,
\* beside a column that has no missing cell
C2_Witness ==
    /\ AfterMissingCheck
    /\ \E r \in Range(Named(results, "Missing Values")) :
         /\ Len(r.issues) = 2
         /\ \E i \in DOMAIN r.issues : r.issues[i].missing = 2
    /\ len(df) >= 3

\* C3: appending a finding a check can emit never raises the score, and the
\* empty finding list scores exactly 100.0.
C3_ScoreMonotone ==
    /\ \A f \in EmittableFindings :
         RLeq(compute_score(Append(results, f)), compute_score(results))
    /\ (results = <<>> /\ score # <<>>) => score = RInt(100)

\* C3 witness: a scored list that a further finding would score strictly lower
C3_Witness ==
    /\ score # <<>>
    /\ Len(results) = 2
    /\ \E f \in EmittableFindings :
         RLess(compute_score(Append(results, f)), score)

\* the claimed sum: the impacts by severity, weighted 3, 2 and 1, times 10
RECURSIVE ImpactSum(_, _, _)
ImpactSum(rs, sev, i) ==
    IF i > Len(rs) THEN RInt(0)
    ELSE RAdd(IF rs[i].severity = sev THEN rs[i].impact ELSE RInt(0),
              ImpactSum(rs, sev, i + 1))

ClaimedPenalty(rs) ==
    RMul(RInt(10),
         RAdd(RMul(RInt(3), ImpactSum(rs, "critical", 1)),
              RAdd(RMul(RInt(2), ImpactSum(rs, "major", 1)),
                   ImpactSum(rs, "minor", 1))))

Clamp(x, lo, hi) == IF RLess(x, lo) THEN lo ELSE IF RLess(hi, x) THEN hi ELSE x

\* C4: the score is clamp(100 - sum of weight * impact * 10, 0, 100) rounded
\* to one decimal, with weights 3, 2, 1; it lies in [0, 100]; and one
\* critical finding of impact 1.0 scores exactly 70.0.
C4_ScoreFormula ==
    score # <<>> =>
      /\ score = Round(Clamp(RSub(RInt(100), ClaimedPenalty(results)),
                             RInt(0), RInt(100)), 1)
      /\ RLeq(RInt(0), score) /\ RLeq(score, RInt(100))
      /\ (Len(results) = 1 /\ results[1].severity = "critical"
            /\ results[1].impact = RInt(1)) => score = RInt(70)

\* C4 witness: the single critical finding of impact 1.0 has been scored
C4_Witness ==
    /\ score = RInt(70)
    /\ Len(results) = 1
    /\ results[1].severity = "critical"
    /\ results[1].impact = RInt(1)

AfterOutlierCheck ==
    pc \in {"check_rare_categories", "check_semantic_regex", "check_dates",
            "enrich_duplicates", "enrich_iqr", "compute_score", "render_report",
            "done"}

\* the rows of column c that hold a number, and the number of row i
Present(c) == {i \in 1..len(df) : df.rows[i][c].k = "num"}

Value(c, i) == df.rows[i][c].n

\* the k-th smallest number of column c
KthSmallest(c, k) ==
    CHOOSE v \in {Value(c, i) : i \in Present(c)} :
        /\ Cardinality({i \in Present(c) : Value(c, i) < v}) < k
        /\ k <= Cardinality({i \in Present(c) : Value(c, i) <= v})

\* the q-th percentile of column c by linear interpolation between the order
\* statistics around position (n - 1) * q / 100
Quartile(c, q) ==
    LET pos  == (Cardinality(Present(c)) - 1) * q
        k    == pos \div 100 + 1
        frac == Rat(pos % 100, 100)
    IN  IF pos % 100 = 0 THEN RInt(KthSmallest(c, k))
        ELSE RAdd(RInt(KthSmallest(c, k)),
                  RMul(frac, RInt(KthSmallest(c, k + 1) - KthSmallest(c, k))))

\* the rows strictly outside [lo, hi].  When Q3 = Q1 the range is floored to
\* epsilon and the interval is Q1 -/+ 1.5 epsilon, which of the numbers of
\* the model holds Q1 alone.
ClaimedOutliers(c) ==
    LET q1  == Quartile(c, 25)
        q3  == Quartile(c, 75)
        w   == RMul(Rat(3, 2), RSub(q3, q1))
    IN  IF q1 = q3
        THEN {i \in Present(c) : RInt(Value(c, i)) # q1}
        ELSE {i \in Present(c) : \/ RLess(RInt(Value(c, i)), RSub(q1, w))
                                 \/ RLess(RAdd(q3, w), RInt(Value(c, i)))}

\* C5: a column with fewer than 10 numbers gives no "IQR Outliers" finding; a
\* numeric column with at least 10 gives one iff some value lies strictly
\* outside [Q1 - 1.5 iqr, Q3 + 1.5 iqr], iqr = max(Q3 - Q1, epsilon), Q1 and
\* Q3 interpolated linearly, with the number of such values as count; the
\* sample 1..9, 100 gives lo = -3.5, hi = 14.5 and count = 1.
C5_IqrOutliers ==
    AfterOutlierCheck =>
      /\ \A c \in ColumnSet(df) :
           LET f == SelectSeq(results, LAMBDA r : r.name = Name("IQR Outliers", ": ", c))
           IN  IF Cardinality(Present(c)) < 10 \/ ~is_numeric_dtype(df, c)
               THEN f = <<>>
               ELSE
                 LET q1   == Quartile(c, 25)
                     q3   == Quartile(c, 75)
                     w    == RMul(Rat(3, 2), RSub(q3, q1))
                     flat == q1 = q3
                 IN  /\ Len(f) = IF ClaimedOutliers(c) # {} THEN 1 ELSE 0
                     /\ \A k \in 1..Len(f) :
                          /\ f[k].issues[1].count = Cardinality(ClaimedOutliers(c))
                          /\ f[k].issues[1].lo = Eps(RSub(q1, w), IF flat THEN 0 - 3 ELSE 0)
                          /\ f[k].issues[1].hi = Eps(RAdd(q3, w), IF flat THEN 3 ELSE 0)
      /\ df = ExampleDf =>
           /\ Len(results) = 1
           /\ results[1].name = Name("IQR Outliers", ": ", "amount")
           /\ results[1].issues[1].lo = Eps(Rat(0 - 7, 2), 0)
           /\ results[1].issues[1].hi = Eps(Rat(29, 2), 0)
           /\ results[1].issues[1].count = 1

\* C5 witness: the sample 1..9, 100 has been checked and its finding emitted
C5_Witness ==
    /\ pc = "check_rare_categories"
    /\ df = ExampleDf
    /\ Len(results) = 1
    /\ results[1].issues[1].count = 1

\* the dataset with its rows in the order p
Permute(d, p) == DataFrame(d.columns, [i \in 1..len(d) |-> d.rows[p[i]]])

\* the row orders tried: every one for a dataset of up to MaxRows rows, the
\* reversal and the rotation by one for a longer one
RowOrders(n) ==
    IF n <= MaxRows THEN Permutations(1..n)
    ELSE {[i \in 1..n |-> n + 1 - i], [i \in 1..n |-> (i % n) + 1]}

\* the "Duplicate Rows" findings of a finding list, their issue records
\* without the given keys
DuplicateView(rs, without) ==
    LET f == Named(rs, "Duplicate Rows")
    IN  [i \in 1..Len(f) |->
           [name |-> f[i].name, severity |-> f[i].severity, impact |-> f[i].impact,
            issues |-> [k \in 1..Len(f[i].issues) |->
                          [key \in DOMAIN f[i].issues[k] \ without |-> f[i].issues[k][key]]]]]

\* the "Duplicate Rows" finding of a dataset, detected and enriched
AuditDuplicates(d) == enrich_duplicates(d, check_missing_duplicates_types(d))

\* C6 as stated: under every reordering of the rows the "Duplicate Rows"
\* finding is present or absent alike, with the same count and impact, and of
\* the enriched record only row_indices may differ.
C6_OnlyRowIndicesDiffer ==
    pc = "done" =>
      \A p \in RowOrders(len(df)) :
          DuplicateView(AuditDuplicates(Permute(df, p)), {"row_indices"})
            = DuplicateView(results, {"row_indices"})

\* C6 as amended: under every reordering of the rows the "Duplicate Rows"
\* finding is present or absent alike, with the same count and impact; of the
\* enriched record row_indices and sample_rows may differ.
C6_DuplicateCountPermutationInvariant ==
    pc = "done" =>
      \A p \in RowOrders(len(df)) :
          DuplicateView(AuditDuplicates(Permute(df, p)), {"row_indices", "sample_rows"})
            = DuplicateView(results, {"row_indices", "sample_rows"})

\* C6 witness: an audited dataset with duplicate rows and a reordering of it
\* under which the duplicate rows sit at other positions
C6_Witness ==
    /\ pc = "done"
    /\ Len(Named(results, "Duplicate Rows")) = 1
    /\ \E p \in RowOrders(len(df)) :
         Named(AuditDuplicates(Permute(df, p)), "Duplicate Rows")[1].issues[1].row_indices
           # Named(results, "Duplicate Rows")[1].issues[1].row_indices

\* C7: a second pass of the enrichment stage over the enriched findings of
\* the same dataset changes nothing.
C7_EnrichmentIdempotent ==
    pc \in {"compute_score", "render_report", "done"} =>
      enrich_iqr(df, enrich_duplicates(df, results)) = results

\* C7 witness: an audit whose findings carry both kinds of evidence
C7_Witness ==
    /\ pc = "done"
    /\ \E r \in Range(Named(results, "Duplicate Rows")) :
         "row_indices" \in DOMAIN r.issues[1] /\ Len(r.issues[1].row_indices) >= 2
    /\ \E r \in Range(Named(results, "IQR Outliers")) :
         "sample_values" \in DOMAIN r.issues[1] /\ Len(r.issues[1].sample_values) >= 2

AfterDatesCheck ==
    pc \in {"enrich_duplicates", "enrich_iqr", "compute_score", "render_report", "done"}

\* row i has ship_date before order_date
ShipsEarly(i) ==
    LET o == to_datetime(df.rows[i]["order_date"])
        s == to_datetime(df.rows[i]["ship_date"])
    IN  o.k = "num" /\ s.k = "num" /\ s.n < o.n

\* the end-to-end case: columns id, order_date, ship_date, exactly one row
\* shipping early, exactly one id value held by more than one row, and a
\* baseline declaring primary_key = [id]
EndToEndCase ==
    /\ df.columns = <<"id", "order_date", "ship_date">>
    /\ Cardinality({i \in 1..len(df) : ShipsEarly(i)}) = 1
    /\ Cardinality({v \in {df.rows[i]["id"] : i \in 1..len(df)} :
                      Cardinality({i \in 1..len(df) : df.rows[i]["id"] = v}) >= 2}) = 1
    /\ baseline.kind = "dict"
    /\ "primary_key" \in baseline.keys
    /\ baseline.primary_key = <<"id">>

\* what one finding adds to the penalty
Contribution(f) == Penalty(<<f>>, 1)

\* the findings of the end-to-end case: one temporal-rule finding, major,
\* and one primary-key finding, critical
EndToEndFindings ==
    /\ Len(Named(results, TEMPORAL_RULE)) = 1
    /\ Named(results, TEMPORAL_RULE)[1].severity = "major"
    /\ Len(Named(results, "Primary Key Uniqueness")) = 1
    /\ Named(results, "Primary Key Uniqueness")[1].severity = "critical"

\* C8 as stated: the end-to-end case yields the two findings, and at equal
\* impact the critical one adds three times the penalty of the major one.
C8_CriticalThriceMajor ==
    (EndToEndCase /\ AfterDatesCheck) =>
      /\ EndToEndFindings
      /\ LET t  == Named(results, TEMPORAL_RULE)[1]
             pk == Named(results, "Primary Key Uniqueness")[1]
         IN  pk.impact = t.impact =>
               Contribution(pk) = RMul(RInt(3), Contribution(t))

\* C8 as amended: the end-to-end case yields the two findings, and the
\* critical one is weighted 3 to the major one's 2: at equal impact it adds
\* one and a half times the penalty.
C8_EndToEnd ==
    (EndToEndCase /\ AfterDatesCheck) =>
      /\ EndToEndFindings
      /\ LET t  == Named(results, TEMPORAL_RULE)[1]
             pk == Named(results, "Primary Key Uniqueness")[1]
         IN  /\ RMul(RInt(2), RMul(Contribution(pk), t.impact))
                  = RMul(RInt(3), RMul(Contribution(t), pk.impact))
             /\ pk.impact = t.impact =>
                  RMul(RInt(2), Contribution(pk)) = RMul(RInt(3), Contribution(t))

\* C8 witness: the end-to-end case audited, its two findings of equal impact
C8_Witness ==
    /\ EndToEndCase
    /\ pc = "done"
    /\ EndToEndFindings
    /\ Named(results, TEMPORAL_RULE)[1].impact
         = Named(results, "Primary Key Uniqueness")[1].impact

\* the finding records something its rule detected
Detected(r) ==
    LET i1 == r.issues[1]
    IN  CASE r.name.rule = "Missing Columns"        -> i1.missing # {}
          [] r.name.rule = "Unexpected Columns"     -> i1.new # {}
          [] r.name.rule = "Dtype Drift"            ->
                 \A k \in DOMAIN r.issues : r.issues[k].expected # r.issues[k].actual
          [] r.name.rule = "Primary Key Uniqueness" -> i1.duplicates >= 1
          [] r.name.rule = "Missing Values"         ->
                 \A k \in DOMAIN r.issues : r.issues[k].missing >= 1
          [] r.name.rule = "Duplicate Rows"         -> i1.duplicates >= 1
          [] r.name.rule = "IQR Outliers"           -> i1.count >= 1
          [] r.name.rule = "Rare Categories"        -> i1.n_rare >= 1
          [] r.name.rule = "Semantic Violations (email)" ->
                 RLeq(Rat(3, 10), i1.fail_rate)
          [] r.name.rule = "Semantic Violations (UK postcode)" ->
                 RLeq(Rat(3, 10), i1.fail_rate)
          [] r.name.rule = "Invalid Dates"          -> i1.invalid >= 1
          [] r.name.rule = TEMPORAL_RULE            -> i1.violations >= 1
          [] OTHER                                  -> FALSE

\* C9: every finding has a non-empty issues list, a severity among critical,
\* major and minor, and an impact in [0, 1], and records what its rule
\* detected: a rule that detects nothing emits no finding.
C9_FindingInvariant ==
    \A i \in DOMAIN results :
        /\ results[i].issues # <<>>
        /\ results[i].severity \in {"critical", "major", "minor"}
        /\ RLeq(RInt(0), results[i].impact)
        /\ RLeq(results[i].impact, RInt(1))
        /\ Detected(results[i])

\* C9 witness: a finding whose detected count exceeds its cap, its impact 1
C9_Witness ==
    /\ pc = "done"
    /\ \E r \in Range(Named(results, "Duplicate Rows")) :
         r.issues[1].duplicates > 10 /\ r.impact = RInt(1)

\* rs2 is rs with keys added to first issue records of "Duplicate Rows" and
\* "IQR Outliers" findings, and nothing else changed
Additive(rs, rs2) ==
    /\ Len(rs2) = Len(rs)
    /\ \A i \in DOMAIN rs :
         /\ rs2[i].name = rs[i].name
         /\ rs2[i].severity = rs[i].severity
         /\ rs2[i].impact = rs[i].impact
         /\ Len(rs2[i].issues) = Len(rs[i].issues)
         /\ \A k \in DOMAIN rs[i].issues :
              /\ DOMAIN rs[i].issues[k] \subseteq DOMAIN rs2[i].issues[k]
              /\ \A key \in DOMAIN rs[i].issues[k] :
                   rs2[i].issues[k][key] = rs[i].issues[k][key]
              /\ rs2[i].issues[k] # rs[i].issues[k] =>
                   /\ k = 1
                   /\ \/ rs[i].name = Name("Duplicate Rows", "", "")
                      \/ rs[i].name.rule = "IQR Outliers"

\* a step of the enrichment stage is additive and keeps the score
EnrichmentStepAdditive ==
    pc \in {"enrich_duplicates", "enrich_iqr"} =>
      (Additive(results, results') /\ compute_score(results') = compute_score(results))

\* C10: the enrichment stage keeps the findings and their order, names,
\* severities and impacts, keeps every key an issue record already has, adds
\* keys only to the first issue record of "Duplicate Rows" and "IQR Outliers"
\* findings, and so leaves the score unchanged.
C10_EnrichmentAdditive == [][EnrichmentStepAdditive]_vars

\* C10 witness: enrichment has added evidence to a "Duplicate Rows" and an
\* "IQR Outliers" finding beside a finding it does not touch
C10_Witness ==
    /\ pc = "compute_score"
    /\ \E r \in Range(Named(results, "Duplicate Rows")) : "columns" \in DOMAIN r.issues[1]
    /\ \E r \in Range(Named(results, "IQR Outliers")) : "explain" \in DOMAIN r.issues[1]
    /\ Named(results, "Missing Values") # <<>>

---------------------------------------------------------------------------
(* Primary-key uniqueness (C11) *)

\* the primary key the audit checks, <<>> when the check is skipped
AuditedKey ==
    IF Truthy(baseline) /\ "primary_key" \in baseline.keys
    THEN Get(baseline, "primary_key", <<>>) ELSE <<>>

AfterPrimaryKeyCheck ==
    /\ pc \in {"check_missing_duplicates_types", "check_outliers_iqr",
               "check_rare_categories", "check_semantic_regex", "check_dates",
               "enrich_duplicates", "enrich_iqr", "compute_score",
               "render_report", "done"}
    /\ AuditedKey # <<>>

SameKey(i, j) == \A k \in DOMAIN AuditedKey : df.rows[i][AuditedKey[k]] = df.rows[j][AuditedKey[k]]

\* the rows that share their key values with at least one other row
KeySharingRows == {i \in 1..len(df) : \E j \in 1..len(df) : j # i /\ SameKey(i, j)}

\* the rows whose key values an earlier row already has
KeyRepeatingRows == {i \in 1..len(df) : \E j \in 1..(i - 1) : SameKey(i, j)}

\* the finding reports n duplicates when n > 0 and is absent when n = 0
ReportsDuplicateKeys(n) ==
    LET pk == Named(results, "Primary Key Uniqueness")
    IN  /\ Len(pk) = IF n > 0 THEN 1 ELSE 0
        /\ \A k \in 1..Len(pk) : pk[k].issues[1].duplicates = n

\* C11 as stated: the duplicates count of "Primary Key Uniqueness" is the
\* number of rows sharing their key values with at least one other row, every
\* member of a duplicate-key group counted, and the finding is emitted iff
\* that number is positive.
C11_CountsEveryMember ==
    AfterPrimaryKeyCheck => ReportsDuplicateKeys(Cardinality(KeySharingRows))

\* C11: the duplicates count of "Primary Key Uniqueness" is the number of rows
\* whose key values already occur in an earlier row, each duplicate-key group
\* counted without its first member, and the finding is emitted iff some rows
\* share their key values.
C11_CountsRepeatedKeys ==
    AfterPrimaryKeyCheck =>
      /\ ReportsDuplicateKeys(Cardinality(KeyRepeatingRows))
      /\ (Named(results, "Primary Key Uniqueness") # <<>>) <=> (KeySharingRows # {})

\* C11 witness: three rows sharing the values of a two-column key, reported
\* as two duplicates
C11_Witness ==
    /\ AfterPrimaryKeyCheck
    /\ Len(AuditedKey) = 2
    /\ Cardinality(KeySharingRows) = 3
    /\ \E r \in Range(Named(results, "Primary Key Uniqueness")) :
         r.issues[1].duplicates = 2

---------------------------------------------------------------------------
(* Schema reconciliation (C12) *)

AfterSchemaCheck ==
    pc \in {"check_primary_key", "check_missing_duplicates_types",
            "check_outliers_iqr", "check_rare_categories", "check_semantic_regex",
            "check_dates", "enrich_duplicates", "enrich_iqr", "compute_score",
            "render_report", "done"}

ExpectedColumns == IF "columns" \in baseline.keys THEN Range(baseline.columns) ELSE {}

DeclaredDtypes == IF "dtypes" \in baseline.keys THEN Range(baseline.dtypes) ELSE {}

\* the declared (column, dtype) pairs whose column the dataset has under a
\* different dtype
DriftedDeclarations ==
    {e \in DeclaredDtypes : e[1] \in ColumnSet(df) /\ dtype(df, e[1]) # e[2]}

\* the findings of the given rule number n, 0 or 1, and have the severity
EmittedWhen(rule, severity, n) ==
    /\ Len(Named(results, rule)) = n
    /\ \A k \in 1..Len(Named(results, rule)) : Named(results, rule)[k].severity = severity

\* the sequence s in the order p of its positions
Reordered(s, p) == [i \in 1..Len(s) |-> s[p[i]]]

\* check_schema gives the same findings whatever the order of the dataset's
\* columns and of the baseline's expected columns
SchemaOrderIndependent ==
    /\ \A p \in Permutations(1..Len(df.columns)) :
         check_schema(DataFrame(Reordered(df.columns, p), df.rows), baseline)
           = check_schema(df, baseline)
    /\ \A p \in Permutations(1..Len(baseline.columns)) :
         check_schema(df, [baseline EXCEPT !.columns = Reordered(baseline.columns, p)])
           = check_schema(df, baseline)

C12_WitnessMatching ==
    /\ AfterSchemaCheck
    /\ Named(results, "Dtype Drift") # <<>>
    /\ \E e \in DeclaredDtypes : e[1] \in ColumnSet(df) /\ e \notin DriftedDeclarations

---------------------------------------------------------------------------
(* Pipeline ordering (C13) *)

Checks ==
    {"check_schema", "check_primary_key", "check_missing_duplicates_types",
     "check_outliers_iqr", "check_rare_categories", "check_semantic_regex",
     "check_dates"}

EnrichmentStages == {"enrich_duplicates", "enrich_iqr"}

Readers == {"compute_score", "render_report"}

\* the outputs of the seven checks, concatenated
AllFindings(d, b) ==
    check_schema(d, b)
    \o (IF Truthy(b) /\ "primary_key" \in b.keys
        THEN check_primary_key(d, Get(b, "primary_key", <<>>)) ELSE <<>>)
    \o check_missing_duplicates_types(d)
    \o check_outliers_iqr(d)
    \o check_rare_categories(d)
    \o check_semantic_regex(d)
    \o check_dates(d)

\* the stages a step completes
Started == completed' \ completed

\* enrichment starts on the concatenated outputs of the seven completed
\* checks, and no check runs once it has started
EnrichmentFollowsChecks ==
    /\ (Started \cap EnrichmentStages # {} /\ completed \cap EnrichmentStages = {})
         => (Checks \subseteq completed /\ results = AllFindings(df, baseline))
    /\ Started \cap Checks # {} => completed \cap EnrichmentStages = {}

\* a step of an audit as the claim orders it: the scorer and the report sink
\* run with enrichment finished
StepOrderedWithEnrichment ==
    /\ EnrichmentFollowsChecks
    /\ Started \cap Readers # {} => EnrichmentStages \subseteq completed

\* C13 as stated: in every audit run enrichment starts only after the seven
\* checks have completed and their outputs are concatenated, the scorer and
\* the report sink read the findings only after enrichment has finished, and
\* no check runs after enrichment has started.
C13_ReadersFollowEnrichment == [][StepOrderedWithEnrichment]_vars

\* a step of an audit as the entry points order it: the callback's scorer and
\* report sink run with enrichment finished, main's with the seven checks
\* completed and no enrichment at all
StepOrdered ==
    /\ EnrichmentFollowsChecks
    /\ Started \cap Readers # {} =>
         /\ Checks \subseteq completed
         /\ IF entry = "run"
            THEN EnrichmentStages \subseteq completed
            ELSE completed \cap EnrichmentStages = {} /\ results = AllFindings(df, baseline)
    /\ "render_report" \in Started => "compute_score" \in completed

\* C13: in every run of the callback enrichment starts only after the seven
\* checks have completed and their outputs are concatenated, the scorer and
\* then the report sink read the findings only after enrichment has finished,
\* and no check runs after enrichment has started; a run of main has no
\* enrichment, its scorer and report sink read the findings as the seven
\* completed checks left them.
C13_PipelineOrdering == [][StepOrdered]_vars

\* C13 witness: a callback run that has gone through the seven checks,
\* enrichment that attached evidence, the scorer and the report sink
C13_Witness ==
    /\ pc = "done"
    /\ entry = "run"
    /\ Checks \cup EnrichmentStages \cup Readers \subseteq completed
    /\ \E r \in Range(results) : "row_indices" \in DOMAIN r.issues[1]
    /\ out.download # <<>>

\* the same for main: a run that has gone through the seven checks, the
\* scorer and the report sink, and wrote a report of findings without evidence
C13_WitnessMain ==
    /\ pc = "done"
    /\ entry = "main"
    /\ Checks \cup Readers \subseteq completed
    /\ Named(results, "Primary Key Uniqueness") # <<>>
    /\ out.written # <<>>

---------------------------------------------------------------------------
(* Check independence (C14) *)

Occurs(x, s) == Cardinality({i \in DOMAIN s : s[i] = x})

\* the sequences hold the same findings, each as many times, in any order
SameUpToOrder(s, t) ==
    /\ Len(s) = Len(t)
    /\ \A x \in Range(s) \cup Range(t) : Occurs(x, s) = Occurs(x, t)

\* a step in any order of the checks leaves the dataset and the baseline as
\* they are; once the seven checks have run the findings are those of the
\* program's order up to order, and the score is the score of that order
IndependentStep ==
    /\ df' = df
    /\ baseline' = baseline
    /\ CheckNames \subseteq completed' =>
         SameUpToOrder(results', AllFindings(df, baseline))
    /\ score' # <<>> => score' = compute_score(AllFindings(df, baseline))

---------------------------------------------------------------------------
(* Input errors (C15) *)

\* the data file is missing or undecodable, or the baseline file given is
\* unparsable
InputError == data_contents.kind # "file" \/ base_contents.kind = "undecodable"

LoadFailureMessages ==
    {"No data file uploaded.", "Failed to read data", "Failed to read baseline"}

\* the audit has left its loading steps
Loaded == pc \notin {"load_data", "load_baseline"}

\* C15: on an input error no check, enrichment, scoring or rendering ever
\* runs and no summary, download link, stored results or report is produced;
\* the callback returns a failure message, main raises.
C15_InputErrorsFailFast ==
    InputError =>
      /\ completed \cap (Checks \cup EnrichmentStages \cup Readers) = {}
      /\ results = <<>>
      /\ score = <<>>
      /\ out.summary = <<>> /\ out.download = <<>> /\ out.store = <<>>
      /\ out.written = <<>>
      /\ Loaded =>
           IF entry = "run"
           THEN pc = "failed" /\ out.status \in LoadFailureMessages /\ out.raised = ""
           ELSE pc = "error" /\ out.raised \in {"load_df", "json.load"} /\ out.status = ""

\* C15 witness: the callback has read the dataset, failed on the baseline
\* and returned its message
C15_Witness ==
    /\ entry = "run"
    /\ pc = "failed"
    /\ data_contents.kind = "file" /\ len(df) = 1
    /\ out = Failure("Failed to read baseline")

\* the same for main: the dataset loaded, json.load raised
C15_WitnessMain ==
    /\ entry = "main"
    /\ pc = "error"
    /\ data_contents.kind = "file" /\ len(df) = 1
    /\ out = Raised("json.load")

---------------------------------------------------------------------------
(* Check failures (C16) *)

\* the audit has ended with a finding list and a score handed over
Ended ==
    /\ pc = "done"
    /\ score = compute_score(results)
    /\ IF entry = "run" THEN out.store = <<[results |-> results]>>
       ELSE out.written = <<ReportOf(df, results, score)>>

\* C16 as stated: with a decodable dataset and a well-formed baseline, one
\* whose primary_key or columns name an absent column included, no check
\* aborts the audit: every step leads on, until the audit has ended with a
\* finding list and a score.
C16_NoCheckAborts ==
    ~InputError => (pc # "error" /\ (pc \in {"done", "failed"} => Ended))

\* the case C16 fails on has been reached: the baseline's primary_key names a
\* column the dataset does not have and the audit has stopped on the KeyError
C16_Aborted ==
    /\ ~InputError
    /\ pc = "error"
    /\ out = Raised("KeyError")
    /\ score = <<>>

---------------------------------------------------------------------------
(* Outlier evidence (C17) *)

AfterEnrichment == entry = "run" /\ pc \in {"compute_score", "render_report", "done"}

\* the row labels of column c whose number lies outside [lo, hi]
OutsidePositions(c, lo, hi) ==
    {i - 1 : i \in {j \in 1..len(df) :
                      df.rows[j][c].k = "num" /\ Outside(df.rows[j][c].n, lo, hi)}}

\* the first issue record of an "IQR Outliers" finding carries the evidence of
\* the column the finding was emitted for
CarriesOutlierEvidence(r) ==
    LET info == r.issues[1]
    IN  /\ {"column", "row_indices", "sample_values", "explain"} \subseteq DOMAIN info
        /\ info.column = r.name.col
        /\ Range(info.row_indices) = OutsidePositions(r.name.col, info.lo, info.hi)
        /\ Len(info.row_indices) = info.count
        /\ Len(info.sample_values) = IF info.count < 10 THEN info.count ELSE 10

\* C17 as stated: after enrichment every "IQR Outliers" finding, whatever the
\* name of its column, carries in its first issue record column, the
\* row_indices of exactly the positions outside the stored [lo, hi], as many
\* as the count, sample_values and explain.
C17_OutliersEnriched ==
    AfterEnrichment =>
      \A r \in Range(Named(results, "IQR Outliers")) : CarriesOutlierEvidence(r)

\* the case C17 fails on has been reached: the finding of a column whose name
\* begins with a blank has gone through enrichment without evidence
C17_Unenriched ==
    /\ AfterEnrichment
    /\ \E r \in Range(Named(results, "IQR Outliers")) :
         /\ r.name.col = " amount"
         /\ DOMAIN r.issues[1] = {"count", "lo", "hi"}

\* the findings of columns whose name has no blank at either end do carry the
\* evidence
C17_TrimmedNamesEnriched ==
    AfterEnrichment =>
      \A r \in Range(Named(results, "IQR Outliers")) :
          ColumnOfName(r.name) = r.name.col => CarriesOutlierEvidence(r)

---------------------------------------------------------------------------
(* Invalid dates (C18) *)

\* the rows of column c whose value is present and fails coercion
FailedCoercion(c) ==
    {i \in 1..len(df) : ~isna(df.rows[i][c]) /\ isna(to_datetime(df.rows[i][c]))}

\* the "Invalid Dates" findings of column c
InvalidDatesOf(c) ==
    SelectSeq(results, LAMBDA r : r.name = Name("Invalid Dates", ": ", c))

\* C18 as stated: for every candidate date column "Invalid Dates: <column>"
\* (minor) is emitted iff some value of the column fails coercion, with the
\* number of values that failed as its invalid count; a column whose present
\* values all parse gets no finding, missing cells or not.
C18_InvalidDatesCountFailures ==
    AfterDatesCheck =>
      \A c \in ColumnSet(df) :
          IsDateColumn(df, c) =>
            /\ Len(InvalidDatesOf(c)) = IF FailedCoercion(c) # {} THEN 1 ELSE 0
            /\ \A k \in 1..Len(InvalidDatesOf(c)) :
                 /\ InvalidDatesOf(c)[k].severity = "minor"
                 /\ InvalidDatesOf(c)[k].issues[1].invalid = Cardinality(FailedCoercion(c))

\* the case C18 fails on has been reached: a date column whose present values
\* all parse and which has a missing cell is reported with invalid dates
C18_MissingCountedInvalid ==
    /\ AfterDatesCheck
    /\ "order_date" \in ColumnSet(df)
    /\ FailedCoercion("order_date") = {}
    /\ \E r \in Range(InvalidDatesOf("order_date")) : r.issues[1].invalid >= 1
    /\ \E i \in 1..len(df) : ~isna(df.rows[i]["order_date"])

===========================================================================
